---------------------------- MODULE Spec2Model ----------------------------
(***************************************************************************)
(* Model of google_nest_sdm/event.py: the event value objects, the         *)
(* RelationUpdate view, the BuildEvents dispatch function and the          *)
(* EventMessage envelope with its lazily evaluated accessors.              *)
(*                                                                         *)
(* Python values are modelled as follows.                                  *)
(*   dict        a function whose DOMAIN is the set of keys                *)
(*   str         a TLA+ string; a timestamp, which the code edits and      *)
(*               parses by character, is PyStr(<<c1, ..., cn>>), a record  *)
(*               holding its sequence of one-character strings             *)
(*   object      a record holding the class name and the wrapped data      *)
(*   a call      an outcome record: Return(v), Absent (the call returned   *)
(*               None) or Raise(e) (the call raised exception e)           *)
(***************************************************************************)
EXTENDS Integers, Sequences, FiniteSets, TLC

VARIABLES
    raw_data,    \* EventMessage._raw_data (event.py:105)
    auth,        \* EventMessage._auth (event.py:106)
    registry,    \* the module-level EVENT_MAP (event.py:22)
    events,      \* the `events` argument of a direct BuildEvents call
    event_map,   \* the `event_map` argument of a direct BuildEvents call
    op,          \* the operation performed last
    arg,         \* the event type whose object it was applied to, or ""
    result,      \* the outcome of the operation performed last
    received,    \* the dictionary the message was built from, as delivered
    failed       \* whether some earlier or the last operation raised

vars ==
    <<raw_data, auth, registry, events, event_map, op, arg, result, received,
      failed>>

-----------------------------------------------------------------------------
(* Key constants, event.py:10-20.                                          *)
EVENT_ID == "eventId"
EVENT_SESSION_ID == "eventSessionId"
TIMESTAMP == "timestamp"
RESOURCE_UPDATE == "resourceUpdate"
NAME == "name"
TRAITS == "traits"
EVENTS == "events"
RELATION_UPDATE == "relationUpdate"
TYPE == "type"
SUBJECT == "subject"
OBJECT == "object"

(* Outcomes of a call.                                                     *)
Return(v) == [kind |-> "return", val |-> v]
Absent == [kind |-> "None"]
Raise(e) == [kind |-> "raise", exc |-> e]

(* A call on a dict gives its outcome and the dict as the call leaves it:  *)
(* the wrappers keep references to the raw dictionaries, never copies, so  *)
(* whatever a call did to a dict would show in the message.                *)

(* d[k]: the stored value, or KeyError when k is no key of d; d is only    *)
(* read.                                                                   *)
GetItem(d, k) ==
    [out |-> IF k \in DOMAIN d THEN Return(d[k]) ELSE Raise("KeyError"),
     dict |-> d]

(* d.setdefault(k, default) in the place of d.get(k, default): the default *)
(* is stored in d when k is no key of it.                                  *)
Get_setdefault(d, k, default) ==
    [out |-> Return(IF k \in DOMAIN d THEN d[k] ELSE default),
     dict |-> [x \in DOMAIN d \cup {k} |-> IF x \in DOMAIN d THEN d[x] ELSE default]]

(* d.get(k, default): the stored value or the default; d is only read.     *)
Get(d, k, default) ==
    [out |-> Return(IF k \in DOMAIN d THEN d[k] ELSE default), dict |-> d]

(* k in d.                                                                 *)
Contains(d, k) == k \in DOMAIN d

EmptyDict == [k \in {} |-> k]

Restrict(d, S) == [k \in S |-> d[k]]

-----------------------------------------------------------------------------
(* The event classes and the registry.                                     *)

(* The NAME attribute of each registered class, event.py:46,52,58,64.      *)
ClassNAME(cls) ==
    CASE cls = "CameraMotionEvent" -> "sdm.devices.events.CameraMotion.Motion"
      [] cls = "CameraPersonEvent" -> "sdm.devices.events.CameraPerson.Person"
      [] cls = "CameraSoundEvent"  -> "sdm.devices.events.CameraSound.Sound"
      [] cls = "DoorbellChimeEvent" -> "sdm.devices.events.DoorbellChime.Chime"

EventClasses ==
    {"CameraMotionEvent", "CameraPersonEvent", "CameraSoundEvent",
     "DoorbellChimeEvent"}

(* Registry.register() applied to a class: the class is stored under its   *)
(* NAME, a later registration of the same name replacing the earlier one.  *)
register(reg, cls) ==
    [n \in DOMAIN reg \cup {ClassNAME(cls)} |->
        IF n = ClassNAME(cls) THEN cls ELSE reg[n]]

(* EVENT_MAP after the module is loaded: Registry() at event.py:22 and the *)
(* four @EVENT_MAP.register() decorators, in source order.                 *)
EVENT_MAP ==
    register(register(register(register(EmptyDict,
        "CameraMotionEvent"), "CameraPersonEvent"), "CameraSoundEvent"),
        "DoorbellChimeEvent")

(* EventBase.__init__: the object keeps the dictionary, reads nothing.     *)
EventBase(cls, data) == [cls |-> cls, _data |-> data]

(* self._data.get(EVENT_ID) in the place of self._data[EVENT_ID]: None for *)
(* a missing key.                                                          *)
EventBase_event_id_get(self) ==
    [out |-> IF EVENT_ID \in DOMAIN self._data
             THEN Return(self._data[EVENT_ID]) ELSE Absent,
     dict |-> self._data]

(* EventBase.event_id, EventBase.event_session_id.                         *)
EventBase_event_id(self) == GetItem(self._data, EVENT_ID)
EventBase_event_session_id(self) == GetItem(self._data, EVENT_SESSION_ID)

-----------------------------------------------------------------------------
(* RelationUpdate.                                                         *)
RelationUpdate(raw) == [cls |-> "RelationUpdate", _raw_data |-> raw]

(* A type accessor that checks the value against the documented           *)
(* enumeration.                                                            *)
RelationUpdate_type_validated(self) ==
    IF TYPE \in DOMAIN self._raw_data
       /\ self._raw_data[TYPE] \notin {"CREATED", "UPDATED", "DELETED"}
    THEN [out |-> Raise("ValueError"), dict |-> self._raw_data]
    ELSE GetItem(self._raw_data, TYPE)

RelationUpdate_type(self) == GetItem(self._raw_data, TYPE)
RelationUpdate_subject(self) == GetItem(self._raw_data, SUBJECT)
RelationUpdate_object(self) == GetItem(self._raw_data, OBJECT)

-----------------------------------------------------------------------------
(* BuildEvents: the loop over events.items(), one entry per iteration.     *)
(* `todo` is the set of keys not yet visited; the entries of a dict have   *)
(* distinct keys, so the order of the visits does not show in the result.  *)
(* Nothing in the loop can raise: the subscript event_map[event] is only   *)
(* reached for a key the membership test found, and the constructor reads  *)
(* nothing of event_data.                                                  *)
RECURSIVE BuildEventsLoop(_, _, _, _)
BuildEventsLoop(evs, emap, todo, res) ==
    IF todo = {} THEN Return(res)
    ELSE LET event == CHOOSE e \in todo : TRUE
             event_data == evs[event]
         IN  IF ~Contains(emap, event)
             THEN BuildEventsLoop(evs, emap, todo \ {event}, res)
             ELSE LET cls == GetItem(emap, event).out.val
                      obj == EventBase(cls, event_data)
                  IN  BuildEventsLoop(evs, emap, todo \ {event},
                          [k \in DOMAIN res \cup {event} |->
                              IF k = event THEN obj ELSE res[k]])

(* A loop without the `continue`: event_map[event] raises for a type the   *)
(* registry does not hold.                                                 *)
BuildEvents_unknown_raises(evs, emap) ==
    IF \E e \in DOMAIN evs : ~Contains(emap, e) THEN Raise("KeyError")
    ELSE BuildEventsLoop(evs, emap, DOMAIN evs, EmptyDict)

(* A constructor that reads the required fields as the object is built.    *)
BuildEvents_validating(evs, emap) ==
    IF \E e \in DOMAIN evs \cap DOMAIN emap :
          ~({EVENT_ID, EVENT_SESSION_ID} \subseteq DOMAIN evs[e])
    THEN Raise("KeyError")
    ELSE BuildEventsLoop(evs, emap, DOMAIN evs, EmptyDict)

BuildEvents(evs, emap) == BuildEventsLoop(evs, emap, DOMAIN evs, EmptyDict)

-----------------------------------------------------------------------------
(* Strings as sequences of characters.                                     *)

(* s[i:j] of Python (0-based, j exclusive, both clipped to the string).    *)
Slice(s, i, j) ==
    LET hi == IF j > Len(s) THEN Len(s) ELSE j
    IN  IF i >= hi THEN <<>> ELSE SubSeq(s, i + 1, hi)

(* s.find(c) of Python for a one-character c: the 0-based index of the     *)
(* first occurrence, -1 when there is none.                                *)
Find(s, c) ==
    IF \E i \in 1..Len(s) : s[i] = c
    THEN (CHOOSE i \in 1..Len(s) : s[i] = c /\ \A j \in 1..(i - 1) : s[j] # c) - 1
    ELSE -1

(* s.replace(old, new) of Python for a one-character `old`: EVERY          *)
(* occurrence of `old` in s is replaced by the characters of `new`.        *)
RECURSIVE str_replace(_, _, _)
str_replace(s, old, new) ==
    IF s = <<>> THEN <<>>
    ELSE (IF Head(s) = old THEN new ELSE <<Head(s)>>)
             \o str_replace(Tail(s), old, new)

PyStr(chars) == [chars |-> chars]

UTC_OFFSET == <<"+", "0", "0", ":", "0", "0">>

Digits == {"0", "1", "2", "3", "4", "5", "6", "7", "8", "9"}

DigitVal(c) ==
    CASE c = "0" -> 0 [] c = "1" -> 1 [] c = "2" -> 2 [] c = "3" -> 3
      [] c = "4" -> 4 [] c = "5" -> 5 [] c = "6" -> 6 [] c = "7" -> 7
      [] c = "8" -> 8 [] c = "9" -> 9

RECURSIVE DigitsVal(_)
DigitsVal(s) ==
    IF s = <<>> THEN 0
    ELSE 10 * DigitsVal(SubSeq(s, 1, Len(s) - 1)) + DigitVal(s[Len(s)])

(* int(s) of Python on the characters that occur here: an optional sign    *)
(* and at least one decimal digit; anything else is a ValueError.          *)
PyInt(s) ==
    LET signed == s # <<>> /\ s[1] \in {"+", "-"}
        body == IF signed THEN Tail(s) ELSE s
    IN  IF body = <<>> \/ \E i \in 1..Len(body) : body[i] \notin Digits
        THEN Raise("ValueError")
        ELSE Return(IF signed /\ s[1] = "-" THEN 0 - DigitsVal(body)
                    ELSE DigitsVal(body))

-----------------------------------------------------------------------------
(* datetime.datetime.fromisoformat, as the interpreter of the code's time  *)
(* (Python 3.7 to 3.10) defines it:                                        *)
(*   YYYY-MM-DD[*HH[:MM[:SS[.fff[fff]]]][+HH:MM[:SS[.ffffff]]]]            *)
(* where * is any single character. A bare Z is not accepted as an offset. *)

(* _parse_isoformat_date on the first ten characters.                      *)
parse_isoformat_date(dtstr) ==
    LET year == PyInt(Slice(dtstr, 0, 4))
        month == PyInt(Slice(dtstr, 5, 7))
        day == PyInt(Slice(dtstr, 8, 10))
    IN  IF Len(dtstr) < 10 THEN Raise("ValueError")
        ELSE IF year.kind = "raise" THEN Raise("ValueError")
        ELSE IF dtstr[5] # "-" THEN Raise("ValueError")
        ELSE IF month.kind = "raise" THEN Raise("ValueError")
        ELSE IF dtstr[8] # "-" THEN Raise("ValueError")
        ELSE IF day.kind = "raise" THEN Raise("ValueError")
        ELSE Return(<<year.val, month.val, day.val>>)

(* _parse_hh_mm_ss_ff: HH[:MM[:SS[.fff[fff]]]]. The loop over the three    *)
(* components is unrolled by recursion on comp; comps holds the components *)
(* read so far.                                                            *)
RECURSIVE parse_hh_mm_ss_loop(_, _, _, _)
parse_hh_mm_ss_loop(tstr, comp, pos, comps) ==
    IF Len(tstr) - pos < 2 THEN Raise("ValueError")
    ELSE LET v == PyInt(Slice(tstr, pos, pos + 2))
             pos2 == pos + 2
             next_char == Slice(tstr, pos2, pos2 + 1)
         IN  IF v.kind = "raise" THEN Raise("ValueError")
             ELSE LET comps2 == [comps EXCEPT ![comp + 1] = v.val]
                  IN  IF next_char = <<>> \/ comp >= 2
                      THEN Return([comps |-> comps2, pos |-> pos2])
                      ELSE IF next_char # <<":">> THEN Raise("ValueError")
                      ELSE parse_hh_mm_ss_loop(tstr, comp + 1, pos2 + 1, comps2)

parse_hh_mm_ss_ff(tstr) ==
    LET r == parse_hh_mm_ss_loop(tstr, 0, 0, <<0, 0, 0, 0>>)
    IN  IF r.kind = "raise" THEN r
        ELSE IF r.val.pos >= Len(tstr) THEN Return(r.val.comps)
        ELSE IF tstr[r.val.pos + 1] # "." THEN Raise("ValueError")
        ELSE LET rest == Slice(tstr, r.val.pos + 1, Len(tstr))
                 frac == PyInt(rest)
             IN  IF Len(rest) \notin {3, 6} THEN Raise("ValueError")
                 ELSE IF frac.kind = "raise" THEN Raise("ValueError")
                 ELSE Return([r.val.comps EXCEPT ![4] =
                          IF Len(rest) = 3 THEN frac.val * 1000 ELSE frac.val])

(* _parse_isoformat_time: the time of day and the optional UTC offset. The *)
(* offset starts at the first '-', or at the first '+' when there is no    *)
(* '-'. tzinfo is <<>> for a naive result and <<seconds>> for an offset    *)
(* (the sub-second part of an offset is dropped here).                     *)
parse_isoformat_time(tstr) ==
    LET tz_pos == IF Find(tstr, "-") + 1 # 0 THEN Find(tstr, "-") + 1
                  ELSE Find(tstr, "+") + 1
        timestr == IF tz_pos > 0 THEN Slice(tstr, 0, tz_pos - 1) ELSE tstr
        time_comps == parse_hh_mm_ss_ff(timestr)
        tzstr == Slice(tstr, tz_pos, Len(tstr))
        tz_comps == parse_hh_mm_ss_ff(tzstr)
        tzsign == IF tstr[tz_pos] = "-" THEN 0 - 1 ELSE 1
    IN  IF Len(tstr) < 2 THEN Raise("ValueError")
        ELSE IF time_comps.kind = "raise" THEN Raise("ValueError")
        ELSE IF tz_pos = 0 THEN Return([time |-> time_comps.val, tzinfo |-> <<>>])
        ELSE IF Len(tzstr) \notin {5, 8, 15} THEN Raise("ValueError")
        ELSE IF tz_comps.kind = "raise" THEN Raise("ValueError")
        ELSE LET secs == tz_comps.val[1] * 3600 + tz_comps.val[2] * 60
                             + tz_comps.val[3]
             IN  IF secs >= 86400 THEN Raise("ValueError")
                 ELSE Return([time |-> time_comps.val,
                              tzinfo |-> <<tzsign * secs>>])

IsLeap(y) == (y % 4 = 0) /\ ((y % 100 # 0) \/ (y % 400 = 0))

DaysInMonth(y, m) ==
    IF m = 2 THEN (IF IsLeap(y) THEN 29 ELSE 28)
    ELSE IF m \in {4, 6, 9, 11} THEN 30 ELSE 31

(* The datetime constructor's range checks on the parsed components.       *)
datetime(d, t, tz) ==
    IF /\ d[1] \in 1..9999 /\ d[2] \in 1..12
       /\ d[3] >= 1 /\ d[3] <= DaysInMonth(d[1], d[2])
       /\ t[1] \in 0..23 /\ t[2] \in 0..59 /\ t[3] \in 0..59
       /\ t[4] \in 0..999999
    THEN Return([year |-> d[1], month |-> d[2], day |-> d[3],
                 hour |-> t[1], minute |-> t[2], second |-> t[3],
                 microsecond |-> t[4], tzinfo |-> tz])
    ELSE Raise("ValueError")

fromisoformat(date_string) ==
    LET dstr == Slice(date_string, 0, 10)
        tstr == Slice(date_string, 11, Len(date_string))
        date_components == parse_isoformat_date(dstr)
        time_components == parse_isoformat_time(tstr)
    IN  IF date_components.kind = "raise" THEN Raise("ValueError")
        ELSE IF tstr = <<>>
             THEN datetime(date_components.val, <<0, 0, 0, 0>>, <<>>)
        ELSE IF time_components.kind = "raise" THEN Raise("ValueError")
        ELSE datetime(date_components.val, time_components.val.time,
                      time_components.val.tzinfo)

-----------------------------------------------------------------------------
(* Collaborators of EventMessage.resource_update_traits that live in       *)
(* traits.py: the command object bound to a device name and the            *)
(* authenticated-command capability, and the trait builder, which returns  *)
(* a mapping from trait name to a trait object holding the trait's data    *)
(* and the command object.                                                 *)
Command(device_id, a) == [device_id |-> device_id, auth |-> a]

BuildTraits(traits, cmd) ==
    Return([t \in DOMAIN traits |-> [data |-> traits[t], cmd |-> cmd]])

-----------------------------------------------------------------------------
(* EventMessage. Each accessor takes the raw dictionary (and what else it  *)
(* reads) and gives [out, dict]: its outcome and the raw dictionary as the *)
(* call leaves it.                                                         *)

(* The raw dictionary with the section under key k replaced by `section`:  *)
(* a section is reached by reference, so a change to it is a change to the *)
(* message's raw data.                                                     *)
WithSection(raw, k, section) == [raw EXCEPT ![k] = section]

(* self._raw_data.pop(EVENT_ID) in the place of the subscript: the key is  *)
(* gone after the first call.                                              *)
EventMessage_event_id_pop(raw) ==
    [out |-> GetItem(raw, EVENT_ID).out,
     dict |-> Restrict(raw, DOMAIN raw \ {EVENT_ID})]

EventMessage_event_id(raw) == GetItem(raw, EVENT_ID)

EventMessage_timestamp(raw) ==
    LET event_timestamp == GetItem(raw, TIMESTAMP)
    IN  IF event_timestamp.out.kind = "raise" THEN event_timestamp
        ELSE [out |-> fromisoformat(
                          str_replace(event_timestamp.out.val.chars, "Z",
                                      UTC_OFFSET)),
              dict |-> event_timestamp.dict]

(* resource_update_name without its presence test.                        *)
EventMessage_resource_update_name_unguarded(raw) ==
    LET section == GetItem(raw, RESOURCE_UPDATE)
    IN  IF section.out.kind = "raise" THEN section
        ELSE LET name == GetItem(section.out.val, NAME)
             IN  [out |-> name.out,
                  dict |-> WithSection(section.dict, RESOURCE_UPDATE, name.dict)]

(* resource_update_name reading NAME from the envelope, not the section.   *)
EventMessage_resource_update_name_envelope(raw) ==
    IF ~Contains(raw, RESOURCE_UPDATE) THEN [out |-> Absent, dict |-> raw]
    ELSE GetItem(raw, NAME)

EventMessage_resource_update_name(raw) ==
    IF ~Contains(raw, RESOURCE_UPDATE) THEN [out |-> Absent, dict |-> raw]
    ELSE LET section == GetItem(raw, RESOURCE_UPDATE)
             name == GetItem(section.out.val, NAME)
         IN  [out |-> name.out,
              dict |-> WithSection(section.dict, RESOURCE_UPDATE, name.dict)]

(* resource_update_events with the subscript [EVENTS] in the place of      *)
(* .get(EVENTS, {}).                                                       *)
EventMessage_resource_update_events_subscript(raw, reg) ==
    IF ~Contains(raw, RESOURCE_UPDATE) THEN [out |-> Absent, dict |-> raw]
    ELSE LET section == GetItem(raw, RESOURCE_UPDATE)
             evs == GetItem(section.out.val, EVENTS)
         IN  [out |-> IF evs.out.kind = "raise" THEN evs.out
                      ELSE BuildEvents(evs.out.val, reg),
              dict |-> WithSection(section.dict, RESOURCE_UPDATE, evs.dict)]

EventMessage_resource_update_events(raw, reg) ==
    IF ~Contains(raw, RESOURCE_UPDATE) THEN [out |-> Absent, dict |-> raw]
    ELSE LET section == GetItem(raw, RESOURCE_UPDATE)
             evs == Get(section.out.val, EVENTS, EmptyDict)
         IN  [out |-> BuildEvents(evs.out.val, reg),
              dict |-> WithSection(section.dict, RESOURCE_UPDATE, evs.dict)]

EventMessage_resource_update_traits(raw, a) ==
    IF ~Contains(raw, RESOURCE_UPDATE) THEN [out |-> Absent, dict |-> raw]
    ELSE LET name == EventMessage_resource_update_name(raw)
         IN  IF name.out.kind = "raise" THEN name
             ELSE LET cmd == Command(name.out.val, a)
                      section == GetItem(name.dict, RESOURCE_UPDATE)
                      traits == Get(section.out.val, TRAITS, EmptyDict)
                  IN  [out |-> BuildTraits(traits.out.val, cmd),
                       dict |-> WithSection(section.dict, RESOURCE_UPDATE,
                                            traits.dict)]

EventMessage_relation_update(raw) ==
    IF ~Contains(raw, RELATION_UPDATE) THEN [out |-> Absent, dict |-> raw]
    ELSE LET section == GetItem(raw, RELATION_UPDATE)
         IN  [out |-> Return(RelationUpdate(section.out.val)),
              dict |-> section.dict]

-----------------------------------------------------------------------------
(* The inputs.                                                             *)

(* The largest number of entries of the `events` mapping handed to a       *)
(* direct BuildEvents call.                                                *)
MaxEntries == 2

Motion == ClassNAME("CameraMotionEvent")
UnknownType == "unknown.type.Foo"

KnownTypes == {ClassNAME(c) : c \in EventClasses}
TypeNames == KnownTypes \cup {UnknownType}

(* All dicts with keys among `keys` and values among `values`.             *)
DictsOver(keys, values) == UNION {[S -> values] : S \in SUBSET keys}

(* Raw event data: complete, and with one or both required fields missing. *)
FullEventData == [eventId |-> "E1", eventSessionId |-> "S1"]
EventDatas == {Restrict(FullEventData, S) : S \in SUBSET DOMAIN FullEventData}

EventsInputs ==
    UNION {[S -> EventDatas] :
              S \in {T \in SUBSET TypeNames : Cardinality(T) <= MaxEntries}}

(* Registries handed to a direct BuildEvents call: the module's own, parts *)
(* of it, and ones an application could build with register().             *)
Registries ==
    {EVENT_MAP, EmptyDict, Restrict(EVENT_MAP, {Motion}),
     register(EmptyDict, "DoorbellChimeEvent"),
     [n \in {UnknownType} |-> "CameraSoundEvent"],
     [n \in {Motion, UnknownType} |-> "CameraPersonEvent"]}

(* Sections of a message. The events of a message range over a known and   *)
(* an unknown type, each with complete or empty data.                      *)
MessageEvents == DictsOver({Motion, UnknownType}, {FullEventData, EmptyDict})

MessageTraits ==
    {EmptyDict, [t \in {"sdm.devices.traits.Info"} |-> [customName |-> "x"]]}

FullResourceUpdate(evs, traits) ==
    [name |-> "enterprises/p1/devices/D1", events |-> evs, traits |-> traits]

ResourceUpdates ==
    {Restrict(FullResourceUpdate(evs, traits), S) :
        evs \in MessageEvents, traits \in MessageTraits,
        S \in SUBSET {NAME, EVENTS, TRAITS}}

RelationUpdates ==
    {Restrict([type |-> t, subject |-> "A", object |-> "B"], S) :
        t \in {"CREATED", "BOGUS"}, S \in SUBSET {TYPE, SUBJECT, OBJECT}}

(* Timestamps, character by character.                                     *)
Dates ==
    {<<"2", "0", "2", "1", "-", "0", "7", "-", "0", "1">>,
     <<"2", "0", "2", "1", "-", "0", "2", "-", "3", "0">>,
     <<"2", "0", "2", "1", "/", "0", "7", "/", "0", "1">>}
Separators == {<<"T">>, <<"Z">>, <<" ">>}
Times ==
    {<<"1", "2", ":", "0", "0", ":", "0", "0">>,
     <<"1", "2", ":", "0", "0">>,
     <<"1", "2">>,
     <<"1", "2", ":", "0", "0", ":", "0", "0", ".", "1", "2", "3">>,
     <<"2", "4", ":", "0", "0", ":", "0", "0">>,
     <<"1", "2", ":", "0", "0", ":", "0">>}
Tails ==
    {<<>>, <<"Z">>, <<"Z", "Z">>, <<"z">>,
     <<"+", "0", "0", ":", "0", "0">>,
     <<"+", "0", "1", ":", "0", "0">>,
     <<"-", "0", "5", ":", "0", "0">>}

TimestampInputs ==
    {PyStr(d \o sep \o t \o tail) :
        d \in Dates, sep \in Separators, t \in Times, tail \in Tails}
    \cup {PyStr(d \o tail) : d \in Dates, tail \in {<<>>, <<"Z">>}}
    \cup {PyStr(<<>>), PyStr(<<"Z">>)}

(* The timestamps of the messages that also carry the other sections: the  *)
(* channel's usual form, one with a second Z and one that is no timestamp. *)
MessageTimestamps ==
    {PyStr(<<"2", "0", "2", "1", "-", "0", "7", "-", "0", "1", "T",
             "1", "2", ":", "0", "0", ":", "0", "0", "Z">>),
     PyStr(<<"2", "0", "2", "1", "-", "0", "7", "-", "0", "1", "Z",
             "1", "2", ":", "0", "0", ":", "0", "0", "Z">>),
     PyStr(<<"n", "o", "w">>)}

FullMessage(t, ru, rl) ==
    [eventId |-> "E1", timestamp |-> t, resourceUpdate |-> ru,
     relationUpdate |-> rl]

Messages ==
    {Restrict(FullMessage(t, ru, rl), S) :
        t \in MessageTimestamps, ru \in ResourceUpdates, rl \in RelationUpdates,
        S \in SUBSET {EVENT_ID, TIMESTAMP, RESOURCE_UPDATE, RELATION_UPDATE}}

TimestampMessages ==
    {Restrict([eventId |-> "E1", timestamp |-> t], S) :
        t \in TimestampInputs, S \in {{TIMESTAMP}, {EVENT_ID, TIMESTAMP}}}

-----------------------------------------------------------------------------
(* The state machine. A state is one EventMessage (its raw dictionary and  *)
(* capability), the registry, the arguments of a direct BuildEvents call,  *)
(* and the outcome of the last operation.                                  *)

(* EventMessage.__init__: the two references are stored, nothing is read.  *)
EventMessage(raw, a) == [_raw_data |-> raw, _auth |-> a]

(* After the module is loaded and a message is built: a message with any   *)
(* combination of sections, or a message carrying any of the timestamps,   *)
(* or the arguments of a direct BuildEvents call.                          *)
Init ==
    /\ auth = "auth"
    /\ registry = EVENT_MAP
    /\ \/ /\ raw_data \in Messages
          /\ events = EmptyDict
          /\ event_map = EmptyDict
       \/ /\ raw_data \in TimestampMessages
          /\ events = EmptyDict
          /\ event_map = EmptyDict
       \/ /\ raw_data = EmptyDict
          /\ events \in EventsInputs
          /\ event_map \in Registries
    /\ received = raw_data
    /\ op = "EventMessage"
    /\ arg = ""
    /\ result = Return(EventMessage(raw_data, auth))
    /\ failed = FALSE

(* An accessor of the message was called: r is [out, dict].                *)
Called(name, a, r) ==
    /\ op' = name
    /\ arg' = a
    /\ result' = r.out
    /\ failed' = (failed \/ r.out.kind = "raise")
    /\ raw_data' = r.dict
    /\ UNCHANGED <<auth, registry, events, event_map, received>>

event_id == Called("event_id", "", EventMessage_event_id(raw_data))

timestamp == Called("timestamp", "", EventMessage_timestamp(raw_data))

resource_update_name ==
    Called("resource_update_name", "",
           EventMessage_resource_update_name(raw_data))

resource_update_events ==
    Called("resource_update_events", "",
           EventMessage_resource_update_events(raw_data, registry))

resource_update_traits ==
    Called("resource_update_traits", "",
           EventMessage_resource_update_traits(raw_data, auth))

relation_update ==
    Called("relation_update", "", EventMessage_relation_update(raw_data))

(* An accessor of the RelationUpdate that relation_update returns. The     *)
(* object wraps the section itself, so the section as the accessor leaves  *)
(* it is the message's section.                                            *)
CalledOnRelation(name, ru, acc) ==
    Called(name, "",
           [out |-> acc.out,
            dict |-> WithSection(ru.dict, RELATION_UPDATE, acc.dict)])

relation_type ==
    LET ru == EventMessage_relation_update(raw_data)
    IN  /\ ru.out.kind = "return"
        /\ CalledOnRelation("RelationUpdate.type", ru,
                            RelationUpdate_type(ru.out.val))

relation_subject ==
    LET ru == EventMessage_relation_update(raw_data)
    IN  /\ ru.out.kind = "return"
        /\ CalledOnRelation("RelationUpdate.subject", ru,
                            RelationUpdate_subject(ru.out.val))

relation_object ==
    LET ru == EventMessage_relation_update(raw_data)
    IN  /\ ru.out.kind = "return"
        /\ CalledOnRelation("RelationUpdate.object", ru,
                            RelationUpdate_object(ru.out.val))

(* An accessor of one of the event objects that resource_update_events     *)
(* returns; the object wraps the entry's data itself.                      *)
CalledOnEvent(name, k, built, acc) ==
    Called(name, k,
           [out |-> acc.out,
            dict |-> [built.dict EXCEPT
                         ![RESOURCE_UPDATE][EVENTS][k] = acc.dict]])

message_event_event_id ==
    LET built == EventMessage_resource_update_events(raw_data, registry)
    IN  /\ built.out.kind = "return"
        /\ \E k \in DOMAIN built.out.val :
              CalledOnEvent("EventBase.event_id@message", k, built,
                            EventBase_event_id(built.out.val[k]))

message_event_event_session_id ==
    LET built == EventMessage_resource_update_events(raw_data, registry)
    IN  /\ built.out.kind = "return"
        /\ \E k \in DOMAIN built.out.val :
              CalledOnEvent("EventBase.event_session_id@message", k, built,
                            EventBase_event_session_id(built.out.val[k]))

(* A direct call BuildEvents(events, event_map): both arguments are only   *)
(* read.                                                                   *)
call_BuildEvents ==
    /\ op' = "BuildEvents"
    /\ arg' = ""
    /\ result' = BuildEvents(events, event_map)
    /\ failed' = (failed \/ result'.kind = "raise")
    /\ UNCHANGED <<raw_data, auth, registry, events, event_map, received>>

(* An accessor of one of the event objects a direct BuildEvents call       *)
(* returns; the object wraps the entry of `events` itself.                 *)
CalledOnBuilt(name, k, acc) ==
    /\ op' = name
    /\ arg' = k
    /\ result' = acc.out
    /\ failed' = (failed \/ acc.out.kind = "raise")
    /\ events' = [events EXCEPT ![k] = acc.dict]
    /\ UNCHANGED <<raw_data, auth, registry, event_map, received>>

built_event_event_id ==
    LET built == BuildEvents(events, event_map)
    IN  /\ built.kind = "return"
        /\ \E k \in DOMAIN built.val :
              CalledOnBuilt("EventBase.event_id@BuildEvents", k,
                            EventBase_event_id(built.val[k]))

built_event_event_session_id ==
    LET built == BuildEvents(events, event_map)
    IN  /\ built.kind = "return"
        /\ \E k \in DOMAIN built.val :
              CalledOnBuilt("EventBase.event_session_id@BuildEvents", k,
                            EventBase_event_session_id(built.val[k]))

Next ==
    \/ event_id
    \/ timestamp
    \/ resource_update_name
    \/ resource_update_events
    \/ resource_update_traits
    \/ relation_update
    \/ relation_type
    \/ relation_subject
    \/ relation_object
    \/ message_event_event_id
    \/ message_event_event_session_id
    \/ call_BuildEvents
    \/ built_event_event_id
    \/ built_event_event_session_id

Spec == Init /\ [][Next]_vars

-----------------------------------------------------------------------------
(* Properties.                                                             *)

HasResourceUpdate == RESOURCE_UPDATE \in DOMAIN raw_data
HasRelationUpdate == RELATION_UPDATE \in DOMAIN raw_data

(* The dictionary the last operation's accessor wraps, and the key it      *)
(* reads, for the required-field accessors.                                *)
RequiredFieldOps ==
    {"event_id", "timestamp",
     "RelationUpdate.type", "RelationUpdate.subject", "RelationUpdate.object",
     "EventBase.event_id@message", "EventBase.event_session_id@message",
     "EventBase.event_id@BuildEvents", "EventBase.event_session_id@BuildEvents"}

WrappedDict ==
    CASE op \in {"event_id", "timestamp"} -> raw_data
      [] op \in {"RelationUpdate.type", "RelationUpdate.subject",
                 "RelationUpdate.object"} -> raw_data[RELATION_UPDATE]
      [] op \in {"EventBase.event_id@message",
                 "EventBase.event_session_id@message"} ->
             raw_data[RESOURCE_UPDATE][EVENTS][arg]
      [] op \in {"EventBase.event_id@BuildEvents",
                 "EventBase.event_session_id@BuildEvents"} -> events[arg]

RequiredKey ==
    CASE op \in {"event_id", "EventBase.event_id@message",
                 "EventBase.event_id@BuildEvents"} -> EVENT_ID
      [] op \in {"EventBase.event_session_id@message",
                 "EventBase.event_session_id@BuildEvents"} -> EVENT_SESSION_ID
      [] op = "timestamp" -> TIMESTAMP
      [] op = "RelationUpdate.type" -> TYPE
      [] op = "RelationUpdate.subject" -> SUBJECT
      [] op = "RelationUpdate.object" -> OBJECT

(* C1: a direct BuildEvents call never fails; its result has exactly the   *)
(* keys of `events` that the registry holds, each mapped to the object the *)
(* registered class builds from the entry's data; the other entries are    *)
(* dropped.                                                                *)
C1_BuildEventsDispatch ==
    op = "BuildEvents" =>
        /\ result.kind = "return"
        /\ DOMAIN result.val = DOMAIN events \cap DOMAIN event_map
        /\ \A k \in DOMAIN result.val :
              result.val[k] = EventBase(event_map[k], events[k])

C1_Witness ==
    /\ op = "BuildEvents"
    /\ result.kind = "return"
    /\ DOMAIN result.val # {}
    /\ DOMAIN events \ DOMAIN event_map # {}

(* C2: on a message without resourceUpdate, resource_update_name,          *)
(* resource_update_events and resource_update_traits each return None and  *)
(* do not raise, whatever else the raw data holds.                         *)
C2_AbsentWithoutResourceUpdate ==
    (/\ op \in {"resource_update_name", "resource_update_events",
                "resource_update_traits"}
     /\ ~HasResourceUpdate)
        => result = Absent

C2_Witness ==
    /\ op = "resource_update_traits"
    /\ ~HasResourceUpdate
    /\ HasRelationUpdate
    /\ result = Absent

(* C3: relation_update returns a RelationUpdate over the section exactly   *)
(* when the raw data has relationUpdate, and None otherwise; the object's  *)
(* type, subject and object accessors return the values stored in the      *)
(* section, whatever the value of type.                                    *)
C3_RelationUpdate ==
    /\ op = "relation_update" =>
          result = IF HasRelationUpdate
                   THEN Return(RelationUpdate(raw_data[RELATION_UPDATE]))
                   ELSE Absent
    /\ (/\ op \in {"RelationUpdate.type", "RelationUpdate.subject",
                   "RelationUpdate.object"}
        /\ RequiredKey \in DOMAIN WrappedDict)
          => result = Return(WrappedDict[RequiredKey])

C3_Witness ==
    /\ op = "RelationUpdate.type"
    /\ result = Return("BOGUS")

(* C4 as claimed: every required-field accessor raises KeyError when its   *)
(* key is missing and returns the stored value when it is present,         *)
(* timestamp included.                                                     *)
C4_Original ==
    op \in RequiredFieldOps =>
        result = IF RequiredKey \in DOMAIN WrappedDict
                 THEN Return(WrappedDict[RequiredKey])
                 ELSE Raise("KeyError")

(* C4, amended: every required-field accessor raises KeyError when its key *)
(* is missing; when it is present, every accessor but timestamp returns    *)
(* the stored value, and timestamp returns the datetime parsed from the    *)
(* stored string with every Z replaced by +00:00, or raises ValueError     *)
(* (never KeyError) when that string does not parse.                       *)
C4_RequiredFields ==
    op \in RequiredFieldOps =>
        IF RequiredKey \notin DOMAIN WrappedDict THEN result = Raise("KeyError")
        ELSE IF op # "timestamp" THEN result = Return(WrappedDict[RequiredKey])
        ELSE /\ result = fromisoformat(
                             str_replace(raw_data[TIMESTAMP].chars, "Z",
                                         UTC_OFFSET))
             /\ result.kind = "raise" => result.exc = "ValueError"

C4_Witness ==
    /\ op = "timestamp"
    /\ TIMESTAMP \in DOMAIN raw_data
    /\ EVENT_ID \notin DOMAIN raw_data
    /\ result = Raise("ValueError")

(* C5 as claimed: resource_update_name never raises, and returns None      *)
(* exactly when the raw data has no resourceUpdate.                        *)
C5_Original ==
    op = "resource_update_name" =>
        /\ result.kind # "raise"
        /\ result = Absent <=> ~HasResourceUpdate

(* C5, amended: resource_update_name returns None when the raw data has no *)
(* resourceUpdate, returns the stored name when the section has a name,    *)
(* and raises KeyError when the section is present without a name.         *)
C5_ResourceUpdateName ==
    op = "resource_update_name" =>
        result = IF ~HasResourceUpdate THEN Absent
                 ELSE IF NAME \in DOMAIN raw_data[RESOURCE_UPDATE]
                      THEN Return(raw_data[RESOURCE_UPDATE][NAME])
                 ELSE Raise("KeyError")

C5_Witness ==
    /\ op = "resource_update_name"
    /\ HasResourceUpdate
    /\ result = Raise("KeyError")

(* C6: on a message with resourceUpdate, resource_update_events returns    *)
(* BuildEvents of the section's events and the registry, with the empty    *)
(* mapping for a section without events: the result is then the empty      *)
(* mapping, neither None nor a failure.                                    *)
C6_ResourceUpdateEvents ==
    (op = "resource_update_events" /\ HasResourceUpdate) =>
        LET section == raw_data[RESOURCE_UPDATE]
        IN  /\ result.kind = "return"
            /\ result = BuildEvents(IF EVENTS \in DOMAIN section
                                    THEN section[EVENTS] ELSE EmptyDict,
                                    registry)
            /\ EVENTS \notin DOMAIN section => DOMAIN result.val = {}

C6_Witness ==
    /\ op = "resource_update_events"
    /\ HasResourceUpdate
    /\ EVENTS \notin DOMAIN raw_data[RESOURCE_UPDATE]
    /\ result.kind = "return"
    /\ DOMAIN result.val = {}

(* The timestamp with only a trailing Z replaced by +00:00.                *)
NormalizeTrailingZ(chars) ==
    IF chars # <<>> /\ chars[Len(chars)] = "Z"
    THEN SubSeq(chars, 1, Len(chars) - 1) \o UTC_OFFSET
    ELSE chars

(* C7 as claimed: timestamp parses the stored string with only a trailing  *)
(* Z replaced by +00:00, every other character unchanged.                  *)
C7_TrailingZOnly ==
    (op = "timestamp" /\ TIMESTAMP \in DOMAIN raw_data) =>
        result = fromisoformat(NormalizeTrailingZ(raw_data[TIMESTAMP].chars))

(* The accessors of the message itself, and the outcome of each on a       *)
(* message freshly built over the raw dictionary `raw`.                    *)
MessageOps ==
    {"event_id", "timestamp", "resource_update_name", "resource_update_events",
     "resource_update_traits", "relation_update"}

FreshOutcome(name, raw) ==
    CASE name = "event_id" -> EventMessage_event_id(raw).out
      [] name = "timestamp" -> EventMessage_timestamp(raw).out
      [] name = "resource_update_name" ->
             EventMessage_resource_update_name(raw).out
      [] name = "resource_update_events" ->
             EventMessage_resource_update_events(raw, registry).out
      [] name = "resource_update_traits" ->
             EventMessage_resource_update_traits(raw, auth).out
      [] name = "relation_update" -> EventMessage_relation_update(raw).out

Without(d, k) == Restrict(d, DOMAIN d \ {k})

WithoutEvents(raw) ==
    IF RESOURCE_UPDATE \in DOMAIN raw
    THEN [raw EXCEPT ![RESOURCE_UPDATE] = Without(@, EVENTS)]
    ELSE raw

(* C8: after any sequence of calls, failed ones included, an accessor of   *)
(* the message gives the outcome it gives on a message freshly built over  *)
(* the same raw data; the outcome of event_id, timestamp and the           *)
(* resource_update accessors does not depend on the relationUpdate         *)
(* section, and the outcome of resource_update_name and                    *)
(* resource_update_traits does not depend on the entries under             *)
(* resourceUpdate.events, so a malformed one never makes them fail.        *)
C8_AccessorsIndependent ==
    op \in MessageOps =>
        /\ result = FreshOutcome(op, received)
        /\ op # "relation_update" =>
              result = FreshOutcome(op, Without(received, RELATION_UPDATE))
        /\ op \in {"resource_update_name", "resource_update_traits"} =>
              result = FreshOutcome(op, WithoutEvents(received))

C8_Witness ==
    /\ op = "event_id"
    /\ failed
    /\ result.kind = "return"
    /\ HasRelationUpdate
    /\ DOMAIN raw_data[RELATION_UPDATE] = {}

(* C9: no missing required field is reported as an object is built.        *)
(* Building the message, relation_update, resource_update_events and       *)
(* BuildEvents do not raise, also over data without eventId or             *)
(* eventSessionId; an accessor of a built event object raises KeyError     *)
(* exactly when the field it reads is missing.                             *)
C9_LazyFailure ==
    /\ op \in {"EventMessage", "relation_update", "resource_update_events",
               "BuildEvents"} => result.kind # "raise"
    /\ op \in {"EventBase.event_id@message", "EventBase.event_session_id@message",
               "EventBase.event_id@BuildEvents",
               "EventBase.event_session_id@BuildEvents",
               "RelationUpdate.type", "RelationUpdate.subject",
               "RelationUpdate.object"} =>
          (result = Raise("KeyError") <=> RequiredKey \notin DOMAIN WrappedDict)

C9_Witness ==
    /\ op = "EventBase.event_session_id@BuildEvents"
    /\ EVENT_SESSION_ID \notin DOMAIN events[arg]
    /\ result = Raise("KeyError")

(* C10: no operation changes the message's raw dictionary, the capability, *)
(* the registry or the arguments of a BuildEvents call, whether it         *)
(* returns a value, returns None or raises.                                *)
C10_InputsUnchanged ==
    [][/\ raw_data' = raw_data
       /\ auth' = auth
       /\ registry' = registry
       /\ events' = events
       /\ event_map' = event_map]_vars

C10_Witness ==
    /\ op = "resource_update_events"
    /\ failed
    /\ HasResourceUpdate
    /\ EVENTS \notin DOMAIN raw_data[RESOURCE_UPDATE]
    /\ raw_data = received
    /\ registry = EVENT_MAP

=============================================================================
